---- MODULE Spec2Model ----
(***************************************************************************)
(* Model of components/webrender_traits/lib.rs:                            *)
(*   - WebrenderExternalImageRegistry (id allocator + id -> kind map),     *)
(*     shared as Arc<Mutex<..>> between subsystem threads and the          *)
(*     dispatcher;                                                         *)
(*   - WebrenderExternalImageHandlers (the dispatcher: one provider slot   *)
(*     per kind, lock/unlock routed through the registry);                 *)
(*   - WebrenderSurfman (device/context/surface/swap-chain lifecycle).     *)
(* Spec is the registry and the dispatcher, SurfSpec the surface manager.  *)
(***************************************************************************)
EXTENDS Integers, Sequences, FiniteSets, TLC

(***************************************************************************)
(* Bounds of the model.                                                    *)
(***************************************************************************)
\* ids the registry may issue before the model stops calling next_id
MaxIds == 2
\* provider instances (Box<dyn WebrenderExternalImageApi>) ever created
MaxProviders == 2
\* threads that call into the registry and the dispatcher
NumThreads == 2
\* WebrenderSurfman handles (Rc clones) alive at once
MaxHandles == 2
\* surface textures created through the manager and not yet destroyed
MaxSurfaceTextures == 1
Threads == 1..NumThreads
\* keys a caller may pass: 0 is never issued, the others may be
Keys == 0..MaxIds
Kinds == {"WebGL", "Media"}
Instances == 1..MaxProviders
\* what a provider's lock may return: <<texture_id, <<width, height>>>>
\* a size above 2^24 is one that `as f32` rounds
ProviderReturns == {<<7, <<1, 2>>>>, <<9, <<16777217, 1>>>>}

VARIABLES
    \* WebrenderExternalImageRegistry
    next_image_id,      \* u64 id generator
    external_images,    \* HashMap<ExternalImageId, WebrenderImageHandlerType>
    \* WebrenderExternalImageHandlers
    webgl_handler,      \* Option<Box<..>>: 0 is None, else the instance
    media_handler,
    \* Arc<Mutex<WebrenderExternalImageRegistry>>
    mutex,              \* thread holding the guard, 0 when free
    poisoned,           \* std::sync::Mutex poison flag
    \* the exclusive (&mut self) borrow of the dispatcher
    borrow,             \* thread inside a dispatcher method, 0 when none
    \* threads
    pc,                 \* position of each thread: idle, insert, callback
    frame,              \* locals of each thread's call in progress
    last,               \* the call that completed last, with its outcome
    \* provider instances
    nextInstance,       \* next fresh provider instance
    \* history (not read by the program)
    issued,             \* sequence of <<id, kind>> returned by next_id
    removed,            \* issued ids on which remove has run
    lockedBy,           \* id -> instance whose lock served it last (0: none)
    installedAs         \* instance -> kind it was installed for ("None")

VARIABLES
    \* WebrenderSurfman / WebrenderSurfmanData
    mgr,                \* Uninitialized, Ready, Destroyed
    handles,            \* Rc strong count of WebrenderSurfman clones
    surface_type,       \* SurfaceType the manager was created with
    swap_chain,         \* Option<SwapChain<Device>>: "None" or "Some"
    context,            \* the surfman Context: none, live, destroyed, leaked
    surface,            \* the context's surface: none, bound, destroyed, leaked
    chain,              \* the swap chain's resources: none, attached, destroyed, leaked
    surface_textures,   \* SurfaceTextures created and not yet destroyed
    trace,              \* surfman calls made by the last operation
    result              \* what the last operation returned

rvars == <<next_image_id, external_images, webgl_handler, media_handler,
           mutex, poisoned, borrow, pc, frame, last, nextInstance,
           issued, removed, lockedBy, installedAs>>

svars == <<mgr, handles, surface_type, swap_chain, context, surface, chain,
           surface_textures, trace, result>>

vars == <<rvars, svars>>

NoFrame ==
    [op |-> "none", key |-> 0, kind |-> "None", provider |-> 0, arg |-> 0,
     paired |-> 0]

NoLast ==
    [op |-> "none", key |-> 0, kind |-> "None", provider |-> 0,
     arg |-> 0, paired |-> 0, ret |-> <<>>, out |-> <<>>]

\* WebrenderExternalImageRegistry::new and WebrenderExternalImageHandlers::new;
\* no WebrenderSurfman exists yet
Init ==
    /\ next_image_id = 0
    /\ external_images = [k \in Keys |-> "None"]
    /\ webgl_handler = 0
    /\ media_handler = 0
    /\ mutex = 0
    /\ poisoned = FALSE
    /\ borrow = 0
    /\ pc = [t \in Threads |-> "idle"]
    /\ frame = [t \in Threads |-> NoFrame]
    /\ last = NoLast
    /\ nextInstance = 1
    /\ issued = <<>>
    /\ removed = {}
    /\ lockedBy = [k \in Keys |-> 0]
    /\ installedAs = [p \in Instances |-> "None"]
    /\ mgr = "Uninitialized"
    /\ handles = 0
    /\ surface_type = "None"
    /\ swap_chain = "None"
    /\ context = "none"
    /\ surface = "none"
    /\ chain = "none"
    /\ surface_textures = 0
    /\ trace = <<>>
    /\ result = <<>>

(***************************************************************************)
(* Pure helpers                                                            *)
(***************************************************************************)
\* WebrenderExternalImageRegistry::get: Option<&WebrenderImageHandlerType>
RegistryGet(map, key) == map[key]

\* mutant: a kind without a provider borrows the other kind's
HandlerForFallback(kind) ==
    IF kind = "WebGL"
    THEN (IF webgl_handler # 0 THEN webgl_handler ELSE media_handler)
    ELSE (IF media_handler # 0 THEN media_handler ELSE webgl_handler)

\* mutant: the two arms of the match call each other's provider
HandlerForSwapped(kind) == IF kind = "WebGL" THEN media_handler ELSE webgl_handler

\* mutant: both arms of the match call the media provider
HandlerForMediaOnly(kind) == media_handler

\* the provider slot the match on handler_type selects
HandlerFor(kind) == IF kind = "WebGL" THEN webgl_handler ELSE media_handler

\* mutant: the registry is shared without mutual exclusion
MutexNeverHeld == TRUE

\* Mutex::lock returns once no other thread holds the guard
MutexFree == mutex = 0

\* a dispatcher method runs with the exclusive (&mut self) borrow
BorrowFree == borrow = 0

\* `x as f32` for an i32 x: nearest f32 (24-bit significand), ties to even
RECURSIVE F32Step(_, _)
F32Step(n, step) == IF n < 16777216 * step THEN step ELSE F32Step(n, 2 * step)

AsF32(x) ==
    LET n == IF x < 0 THEN -x ELSE x
        s == F32Step(n, 1)
        q == n \div s
        r == n % s
        up == (2 * r > s) \/ (2 * r = s /\ q % 2 = 1)
        m == (IF up THEN q + 1 ELSE q) * s
    IN IF x < 0 THEN -m ELSE m

\* mutant: both kinds get the rectangle of the Media arm
UvForUnflipped(kind, size) == <<0, 0, AsF32(size[1]), AsF32(size[2])>>

\* TexelRect::new(u0, v0, u1, v1) built by lock for each kind
UvFor(kind, size) ==
    IF kind = "WebGL"
    THEN <<0, AsF32(size[2]), AsF32(size[1]), 0>>
    ELSE <<0, 0, AsF32(size[1]), AsF32(size[2])>>

\* mutant: the allocator hands out the smallest key that is free
ReusedKey(counter, map) ==
    IF \E k \in 1..MaxIds : map[k] = "None"
    THEN CHOOSE k \in 1..MaxIds :
            map[k] = "None" /\ \A j \in 1..(k - 1) : map[j] # "None"
    ELSE counter

\* next_id, line 73: the key is the counter's value after the increment
NewKey(counter, map) == counter

\* HashMap::insert, line 74
MapInsert(map, key, handler_type) == [map EXCEPT ![key] = handler_type]

\* mutant: remove keeps the entry of the key and drops every other one
MapRemoveAllButKey(map, key) ==
    [k \in DOMAIN map |-> IF k = key THEN map[k] ELSE "None"]

\* mutant: remove leaves the entry in the map
MapRemoveNothing(map, key) == map

\* HashMap::remove, line 79: the entry goes, an absent key changes nothing
MapRemove(map, key) == [map EXCEPT ![key] = "None"]

\* the panics of lock and unlock
PoisonPanic == <<"panic", "PoisonError">>
UnknownPanic == <<"panic", "Tried to get unknown external image">>
NoHandlerPanic == <<"panic", "called Option::unwrap() on a None value">>
ProviderPanicked == <<"panic", "provider">>

\* mutant: an unknown key is not fatal, the lookup falls back to a kind
DispatchFailureNoExpect(key) ==
    IF poisoned THEN PoisonPanic ELSE <<>>

\* lines 133-139 / 162-167: what stops the call before a provider is reached
DispatchFailure(key) ==
    LET handler_type == RegistryGet(external_images, key) IN
    IF poisoned THEN PoisonPanic
    ELSE IF handler_type = "None" THEN UnknownPanic
    ELSE IF HandlerFor(handler_type) = 0 THEN NoHandlerPanic
    ELSE <<>>

\* thread t is free to make a call; threads have no identity in the program,
\* so of the free threads the first stands for all of them
Caller(t) == pc[t] = "idle" /\ \A u \in Threads : u < t => pc[u] # "idle"

IssuedIds == {issued[i][1] : i \in 1..Len(issued)}

(***************************************************************************)
(* Registry operations, called by any thread through the shared mutex.     *)
(* Taking the guard and the first statement under it are one step: a       *)
(* thread that waits for the guard is a thread whose step is not enabled.  *)
(***************************************************************************)
\* next_id, line 72, under the caller's guard: self.next_image_id += 1
NextIdInc(t, handler_type) ==
    /\ Caller(t)
    /\ MutexFree
    /\ next_image_id < MaxIds
    /\ mutex' = t
    /\ next_image_id' = next_image_id + 1
    /\ pc' = [pc EXCEPT ![t] = "insert"]
    /\ frame' = [frame EXCEPT ![t] = [NoFrame EXCEPT !.op = "next_id",
                                                     !.kind = handler_type]]
    /\ UNCHANGED <<external_images, webgl_handler, media_handler, poisoned,
                   borrow, last, nextInstance, issued, removed, lockedBy,
                   installedAs>>
    /\ UNCHANGED svars

\* next_id, lines 73-75: key from the counter, insert, return key; the caller
\* drops the guard
NextIdInsert(t) ==
    /\ pc[t] = "insert"
    /\ LET key == NewKey(next_image_id, external_images) IN
        /\ external_images' = MapInsert(external_images, key, frame[t].kind)
        /\ issued' = Append(issued, <<key, frame[t].kind>>)
        /\ last' = [NoLast EXCEPT !.op = "next_id", !.key = key,
                                  !.kind = frame[t].kind, !.out = <<"id", key>>]
    /\ mutex' = 0
    /\ pc' = [pc EXCEPT ![t] = "idle"]
    /\ frame' = [frame EXCEPT ![t] = NoFrame]
    /\ UNCHANGED <<next_image_id, webgl_handler, media_handler, poisoned,
                   borrow, nextInstance, removed, lockedBy, installedAs>>
    /\ UNCHANGED svars

\* remove, lines 78-80, under the caller's guard
RegRemove(t, key) ==
    /\ Caller(t)
    /\ MutexFree
    /\ external_images' = MapRemove(external_images, key)
    /\ removed' = removed \cup ({key} \cap IssuedIds)
    /\ last' = [NoLast EXCEPT !.op = "remove", !.key = key,
                              !.out = <<"unit">>]
    /\ UNCHANGED <<next_image_id, webgl_handler, media_handler, mutex, poisoned,
                   borrow, pc, frame, nextInstance, issued, lockedBy,
                   installedAs>>
    /\ UNCHANGED svars

\* get, lines 82-84, under the caller's guard
RegGet(t, key) ==
    /\ Caller(t)
    /\ MutexFree
    /\ last' = [NoLast EXCEPT !.op = "get", !.key = key,
                              !.out = <<"kind", RegistryGet(external_images, key)>>]
    /\ UNCHANGED <<next_image_id, external_images, webgl_handler, media_handler,
                   mutex, poisoned, borrow, pc, frame, nextInstance, issued,
                   removed, lockedBy, installedAs>>
    /\ UNCHANGED svars

(***************************************************************************)
(* Dispatcher: WebrenderExternalImageHandlers                              *)
(***************************************************************************)
\* set_handler, lines 110-119: a fresh boxed provider replaces the slot
SetHandler(t, handler_type) ==
    /\ Caller(t)
    /\ BorrowFree
    /\ nextInstance <= MaxProviders
    /\ IF handler_type = "WebGL"
       THEN webgl_handler' = nextInstance /\ UNCHANGED media_handler
       ELSE media_handler' = nextInstance /\ UNCHANGED webgl_handler
    /\ installedAs' = [installedAs EXCEPT ![nextInstance] = handler_type]
    /\ nextInstance' = nextInstance + 1
    /\ UNCHANGED <<next_image_id, external_images, mutex, poisoned, borrow,
                   pc, frame, last, issued, removed, lockedBy>>
    /\ UNCHANGED svars

\* lock / unlock up to the provider call, lines 133-146 / 162-168:
\* self.external_images.lock().unwrap(); get(&key).expect(..); the slot of the
\* kind, as_mut().unwrap(); then the provider is called with key.0.
\* unwrap on a poisoned mutex panics; a failed expect or unwrap panics with the
\* guard alive, which poisons the mutex.
\* mutant: the guard is given up before the call can fail
GuardDroppedBeforePanic == FALSE

\* lock, line 133, and unlock, line 162: the guard `external_images` lives to
\* the end of the method, so a panic of the method unwinds through it
GuardAliveAtPanic == TRUE

\* lock(key, _channel_index, _rendering) and unlock(key, _channel_index) up
\* to the provider call: the methods read nothing of their arguments but the
\* key, so the key is the only input
Dispatch(t, op, key) ==
    /\ Caller(t)
    /\ BorrowFree
    /\ MutexFree
    /\ LET handler_type == RegistryGet(external_images, key)
           handler == HandlerFor(handler_type)
       IN IF DispatchFailure(key) # <<>>
          THEN /\ poisoned' = (poisoned \/ GuardAliveAtPanic)
               /\ last' = [NoLast EXCEPT !.op = op, !.key = key,
                                         !.out = DispatchFailure(key)]
               /\ UNCHANGED <<pc, frame, mutex, borrow, lockedBy>>
          ELSE /\ pc' = [pc EXCEPT ![t] = "callback"]
               /\ frame' = [frame EXCEPT ![t] =
                              [op |-> op, key |-> key, kind |-> handler_type,
                               provider |-> handler, arg |-> key,
                               paired |-> lockedBy[key]]]
               /\ lockedBy' = [lockedBy EXCEPT ![key] =
                                  IF op = "lock" THEN handler ELSE 0]
               /\ mutex' = t
               /\ borrow' = t
               /\ UNCHANGED <<poisoned, last>>
    /\ UNCHANGED <<next_image_id, external_images, webgl_handler, media_handler,
                   nextInstance, issued, removed, installedAs>>
    /\ UNCHANGED svars

\* what the completed dispatcher call of thread t reports
Completed(t, out) ==
    [op |-> frame[t].op, key |-> frame[t].key, kind |-> frame[t].kind,
     provider |-> frame[t].provider, arg |-> frame[t].arg,
     paired |-> frame[t].paired, ret |-> <<>>, out |-> out]

\* lock, lines 139-156: the provider's lock returns (texture_id, size); the
\* guard is dropped when the method returns the ExternalImage
ProviderLockReturn(t, texture_id, size) ==
    /\ pc[t] = "callback"
    /\ frame[t].op = "lock"
    /\ last' = [Completed(t, <<"image", texture_id, UvFor(frame[t].kind, size)>>)
                  EXCEPT !.ret = <<texture_id, size>>]
    /\ pc' = [pc EXCEPT ![t] = "idle"]
    /\ frame' = [frame EXCEPT ![t] = NoFrame]
    /\ mutex' = 0
    /\ borrow' = 0
    /\ UNCHANGED <<next_image_id, external_images, webgl_handler, media_handler,
                   poisoned, nextInstance, issued, removed, lockedBy, installedAs>>
    /\ UNCHANGED svars

\* unlock, lines 167-170: the provider's unlock returns
ProviderUnlockReturn(t) ==
    /\ pc[t] = "callback"
    /\ frame[t].op = "unlock"
    /\ last' = Completed(t, <<"unit">>)
    /\ pc' = [pc EXCEPT ![t] = "idle"]
    /\ frame' = [frame EXCEPT ![t] = NoFrame]
    /\ mutex' = 0
    /\ borrow' = 0
    /\ UNCHANGED <<next_image_id, external_images, webgl_handler, media_handler,
                   poisoned, nextInstance, issued, removed, lockedBy, installedAs>>
    /\ UNCHANGED svars

\* the provider panics inside lock or unlock: the guard is dropped while
\* unwinding, which poisons the mutex
ProviderPanic(t) ==
    /\ pc[t] = "callback"
    /\ last' = Completed(t, ProviderPanicked)
    /\ pc' = [pc EXCEPT ![t] = "idle"]
    /\ frame' = [frame EXCEPT ![t] = NoFrame]
    /\ poisoned' = (poisoned \/ GuardAliveAtPanic)
    /\ mutex' = 0
    /\ borrow' = 0
    /\ UNCHANGED <<next_image_id, external_images, webgl_handler, media_handler,
                   nextInstance, issued, removed, lockedBy, installedAs>>
    /\ UNCHANGED svars

RegNext ==
    \E t \in Threads :
        \/ \E handler_type \in Kinds : NextIdInc(t, handler_type)
        \/ NextIdInsert(t)
        \/ \E key \in Keys : RegRemove(t, key)
        \/ \E key \in Keys : RegGet(t, key)
        \/ \E handler_type \in Kinds : SetHandler(t, handler_type)
        \/ \E op \in {"lock", "unlock"}, key \in Keys : Dispatch(t, op, key)
        \/ \E ret \in ProviderReturns : ProviderLockReturn(t, ret[1], ret[2])
        \/ ProviderUnlockReturn(t)
        \/ ProviderPanic(t)

Spec == Init /\ [][RegNext]_vars

(***************************************************************************)
(* Surface manager: WebrenderSurfman.  Every surfman call may fail; an      *)
(* operation is one step, its surfman calls are listed in trace as         *)
(* <<call, "Ok" | "Err">> and the error it returns is named after the call *)
(* that produced it.  A resource is "leaked" when its owner is dropped     *)
(* without the destroy call, "destroy_failed" when the destroy call failed.*)
(***************************************************************************)
SurfaceTypes == {"Widget", "Generic"}

\* mutant: every surface type counts as headless
HeadlessAlways(st) == TRUE

\* create, lines 207-210
Headless(st) == st = "Generic"

Call(name, failing) == <<name, IF failing = name THEN "Err" ELSE "Ok">>

\* mutant: the bind error is propagated with `?` alone, the surface is dropped
BindFailedNoCleanup(destroy_ok) ==
    [trace |-> <<>>, surface |-> "leaked", err |-> "bind_surface_to_context"]

\* create, lines 214-217: the closure run when bind_surface_to_context fails
BindFailedCleanup(destroy_ok) ==
    [trace |-> <<<<"destroy_surface", IF destroy_ok THEN "Ok" ELSE "Err">>>>,
     surface |-> IF destroy_ok THEN "destroyed" ELSE "destroy_failed",
     err |-> "bind_surface_to_context"]

\* create, lines 203-236, with `failing` the surfman call that fails
CreateRun(st, failing, destroy_ok) ==
    LET t1 == <<Call("create_device", failing)>>
        t2 == Append(t1, Call("create_context_descriptor", failing))
        t3 == Append(t2, Call("create_context", failing))
        t4 == Append(t3, Call("create_surface", failing))
        t5 == Append(t4, Call("bind_surface_to_context", failing))
        t6 == Append(t5, Call("create_attached", failing))
        none == [context |-> "none", surface |-> "none", chain |-> "none",
                 swap_chain |-> "None", mgr |-> "Uninitialized"]
        Fail(tr, rest) == [rest EXCEPT !.trace = tr,
                                       !.result = <<"create", "Err", failing>>]
        base == none @@ [trace |-> <<>>, result |-> <<>>]
    IN  IF failing = "create_device" THEN Fail(t1, base)
        ELSE IF failing = "create_context_descriptor" THEN Fail(t2, base)
        ELSE IF failing = "create_context" THEN Fail(t3, base)
        ELSE IF failing = "create_surface"
            \* `?` drops the context without destroy_context
            THEN Fail(t4, [base EXCEPT !.context = "leaked"])
        ELSE IF failing = "bind_surface_to_context"
            THEN LET c == BindFailedCleanup(destroy_ok) IN
                 [base EXCEPT !.context = "leaked", !.surface = c.surface,
                              !.trace = t5 \o c.trace,
                              !.result = <<"create", "Err", c.err>>]
        ELSE IF Headless(st) /\ failing = "create_attached"
            \* `?` drops the context and the surface bound to it
            THEN Fail(t6, [base EXCEPT !.context = "leaked", !.surface = "leaked"])
        ELSE [base EXCEPT !.context = "live", !.surface = "bound",
                          !.chain = IF Headless(st) THEN "attached" ELSE "none",
                          !.swap_chain = IF Headless(st) THEN "Some" ELSE "None",
                          !.mgr = "Ready",
                          !.trace = IF Headless(st) THEN t6 ELSE t5,
                          !.result = <<"create", "Ok">>]

CreateFailures ==
    {"none", "create_device", "create_context_descriptor", "create_context",
     "create_surface", "bind_surface_to_context", "create_attached"}

\* WebrenderSurfman::create
Create(st, failing, destroy_ok) ==
    /\ mgr = "Uninitialized"
    /\ failing = "create_attached" => Headless(st)
    /\ ~destroy_ok => failing = "bind_surface_to_context"
    /\ LET r == CreateRun(st, failing, destroy_ok) IN
        /\ mgr' = r.mgr
        /\ handles' = IF r.mgr = "Ready" THEN 1 ELSE 0
        /\ surface_type' = st
        /\ swap_chain' = r.swap_chain
        /\ context' = r.context
        /\ surface' = r.surface
        /\ chain' = r.chain
        /\ trace' = r.trace
        /\ result' = r.result
    /\ surface_textures' = 0
    /\ UNCHANGED rvars

\* mutant: the rebind error is passed on and the surface is only dropped
RebindFailedNoCleanup(destroy_ok) ==
    [trace |-> <<>>, surface |-> "leaked", err |-> "bind_surface_to_context"]

\* present, lines 282-285: the closure run when the rebind fails
RebindFailedCleanup(destroy_ok) ==
    [trace |-> <<<<"destroy_surface", IF destroy_ok THEN "Ok" ELSE "Err">>>>,
     surface |-> IF destroy_ok THEN "destroyed" ELSE "destroy_failed",
     err |-> "bind_surface_to_context"]

\* mutant: present always cycles the bound surface
SwapChainNeverSeen == FALSE

\* present, line 275: `if let Some(ref swap_chain) = self.0.swap_chain`
HasSwapChain == swap_chain = "Some"

\* present, lines 272-286
PresentRun(failing, destroy_ok) ==
    LET t1 == <<Call("unbind_surface_from_context", failing)>>
        t2 == Append(t1, Call("present_surface", failing))
        t3 == Append(t2, Call("bind_surface_to_context", failing))
    IN  IF HasSwapChain
        THEN [trace |-> <<Call("swap_buffers", failing)>>,
              surface |-> surface,
              result |-> IF failing = "swap_buffers"
                         THEN <<"present", "Err", failing>>
                         ELSE <<"present", "Ok">>]
        ELSE IF failing = "unbind_surface_from_context"
        THEN [trace |-> t1, surface |-> surface,
              result |-> <<"present", "Err", failing>>]
        ELSE IF surface # "bound"
        \* unbind returned Ok(None): unwrap panics
        THEN [trace |-> t1, surface |-> surface,
              result |-> <<"present", "panic">>]
        ELSE IF failing = "present_surface"
        \* `?` drops the unbound surface without destroy_surface
        THEN [trace |-> t2, surface |-> "leaked",
              result |-> <<"present", "Err", failing>>]
        ELSE IF failing = "bind_surface_to_context"
        THEN LET c == RebindFailedCleanup(destroy_ok) IN
             [trace |-> t3 \o c.trace, surface |-> c.surface,
              result |-> <<"present", "Err", c.err>>]
        ELSE [trace |-> t3, surface |-> "bound", result |-> <<"present", "Ok">>]

PresentFailures ==
    {"none", "swap_buffers", "unbind_surface_from_context", "present_surface",
     "bind_surface_to_context"}

\* WebrenderSurfman::present
Present(failing, destroy_ok) ==
    /\ mgr = "Ready"
    /\ failing = "swap_buffers" <=> (swap_chain = "Some" /\ failing # "none")
    /\ ~destroy_ok =>
          (failing = "bind_surface_to_context" /\ surface = "bound")
    /\ LET r == PresentRun(failing, destroy_ok) IN
        /\ surface' = r.surface
        /\ trace' = r.trace
        /\ result' = r.result
    /\ UNCHANGED <<mgr, handles, surface_type, swap_chain, context, chain,
                   surface_textures>>
    /\ UNCHANGED rvars

\* mutant: resize does not ask for the swap chain first
SwapChainAlwaysOk == "Ok"

\* swap_chain, lines 262-264
SwapChainOrError == IF swap_chain = "Some" THEN "Ok" ELSE "WidgetAttached"

\* WebrenderSurfman::resize, lines 266-270
Resize(ok) ==
    /\ mgr = "Ready"
    /\ ~ok => swap_chain = "Some"
    /\ IF SwapChainOrError # "Ok"
       THEN /\ trace' = <<>>
            /\ result' = <<"resize", "Err", SwapChainOrError>>
       ELSE /\ trace' = <<<<"resize", IF ok THEN "Ok" ELSE "Err">>>>
            /\ result' = IF ok THEN <<"resize", "Ok">>
                               ELSE <<"resize", "Err", "resize">>
    /\ UNCHANGED <<mgr, handles, surface_type, swap_chain, context, surface,
                   chain, surface_textures>>
    /\ UNCHANGED rvars

\* WebrenderSurfman::create_surface_texture, lines 238-245: on failure the
\* surface goes back to the caller
CreateSurfaceTexture(ok) ==
    /\ mgr = "Ready"
    /\ surface_textures < MaxSurfaceTextures
    /\ surface_textures' = IF ok THEN surface_textures + 1 ELSE surface_textures
    /\ trace' = <<<<"create_surface_texture", IF ok THEN "Ok" ELSE "Err">>>>
    /\ result' = IF ok THEN <<"create_surface_texture", "Ok">>
                       ELSE <<"create_surface_texture", "Err", "create_surface_texture">>
    /\ UNCHANGED <<mgr, handles, surface_type, swap_chain, context, surface, chain>>
    /\ UNCHANGED rvars

\* WebrenderSurfman::destroy_surface_texture, lines 247-254: on failure the
\* surface texture goes back to the caller
DestroySurfaceTexture(ok) ==
    /\ mgr = "Ready"
    /\ surface_textures > 0
    /\ surface_textures' = IF ok THEN surface_textures - 1 ELSE surface_textures
    /\ trace' = <<<<"destroy_surface_texture", IF ok THEN "Ok" ELSE "Err">>>>
    /\ result' = IF ok THEN <<"destroy_surface_texture", "Ok">>
                       ELSE <<"destroy_surface_texture", "Err", "destroy_surface_texture">>
    /\ UNCHANGED <<mgr, handles, surface_type, swap_chain, context, surface, chain>>
    /\ UNCHANGED rvars

\* #[derive(Clone)] on WebrenderSurfman, line 175: another Rc handle
CloneHandle ==
    /\ mgr = "Ready"
    /\ handles < MaxHandles
    /\ handles' = handles + 1
    /\ UNCHANGED <<mgr, surface_type, swap_chain, context, surface, chain,
                   surface_textures, trace, result>>
    /\ UNCHANGED rvars

\* mutant: the swap chain's teardown error ends the teardown
DropRunStopsOnError(chain_ok, context_ok) ==
    IF swap_chain = "Some" /\ ~chain_ok
    THEN [trace |-> <<<<"swap_chain.destroy", "Err">>>>,
          chain |-> "destroy_failed",
          context |-> context,
          surface |-> surface,
          result |-> <<"drop", "Err", "swap_chain.destroy">>]
    ELSE [trace |-> (IF swap_chain = "Some"
                     THEN <<<<"swap_chain.destroy", "Ok">>>> ELSE <<>>)
                    \o <<<<"destroy_context", IF context_ok THEN "Ok" ELSE "Err">>>>,
          chain |-> IF swap_chain = "Some" THEN "destroyed" ELSE chain,
          context |-> IF context_ok THEN "destroyed" ELSE "destroy_failed",
          surface |-> IF surface = "bound"
                      THEN (IF context_ok THEN "destroyed" ELSE "destroy_failed")
                      ELSE surface,
          result |-> <<"drop">>]

\* Drop for WebrenderSurfmanData, lines 185-194: both results are discarded
\* by `let _ =`
DropRun(chain_ok, context_ok) ==
    LET t1 == IF swap_chain = "Some"
              THEN <<<<"swap_chain.destroy", IF chain_ok THEN "Ok" ELSE "Err">>>>
              ELSE <<>>
    IN [trace |-> Append(t1, <<"destroy_context", IF context_ok THEN "Ok" ELSE "Err">>),
        chain |-> IF swap_chain = "Some"
                  THEN (IF chain_ok THEN "destroyed" ELSE "destroy_failed")
                  ELSE chain,
        context |-> IF context_ok THEN "destroyed" ELSE "destroy_failed",
        surface |-> IF surface = "bound"
                    THEN (IF context_ok THEN "destroyed" ELSE "destroy_failed")
                    ELSE surface,
        result |-> <<"drop">>]

\* mutant: every dropped handle tears the manager down
EveryDropIsLast == TRUE

\* the Rc of line 176: the data is dropped when its last handle goes
LastHandle == handles = 1

\* a handle is dropped; the last one runs Drop for WebrenderSurfmanData
DropHandle(chain_ok, context_ok) ==
    /\ mgr = "Ready"
    /\ IF ~LastHandle
       THEN /\ chain_ok /\ context_ok
            /\ handles' = handles - 1
            /\ trace' = <<>>
            /\ result' = <<"drop_handle">>
            /\ UNCHANGED <<mgr, context, surface, chain>>
       ELSE /\ ~chain_ok => swap_chain = "Some"
            /\ LET r == DropRun(chain_ok, context_ok) IN
                /\ trace' = r.trace
                /\ chain' = r.chain
                /\ context' = r.context
                /\ surface' = r.surface
                /\ result' = r.result
            /\ handles' = 0
            /\ mgr' = "Destroyed"
    /\ UNCHANGED <<surface_type, swap_chain, surface_textures>>
    /\ UNCHANGED rvars

SurfNext ==
    \/ \E st \in SurfaceTypes, failing \in CreateFailures, destroy_ok \in BOOLEAN :
          Create(st, failing, destroy_ok)
    \/ \E failing \in PresentFailures, destroy_ok \in BOOLEAN :
          Present(failing, destroy_ok)
    \/ \E ok \in BOOLEAN : Resize(ok)
    \/ \E ok \in BOOLEAN : CreateSurfaceTexture(ok)
    \/ \E ok \in BOOLEAN : DestroySurfaceTexture(ok)
    \/ CloneHandle
    \/ \E chain_ok \in BOOLEAN, context_ok \in BOOLEAN :
          DropHandle(chain_ok, context_ok)

SurfSpec == Init /\ [][SurfNext]_vars

(***************************************************************************)
(* History helpers                                                         *)
(***************************************************************************)
Max(S) == CHOOSE x \in S : \A y \in S : y <= x

\* the kind the latest next_id that returned id was called with
AssocKind(id) ==
    LET S == {i \in 1..Len(issued) : issued[i][1] = id}
    IN IF S = {} THEN "None" ELSE issued[Max(S)][2]

\* the provider instance installed last for a kind (0: none yet)
Latest(kind) ==
    LET S == {p \in Instances : installedAs[p] = kind}
    IN IF S = {} THEN 0 ELSE Max(S)

\* id is registered: next_id returned it and remove has not run on it
Registered(id) == id \in IssuedIds \ removed

\* the counter has been incremented for an id whose mapping is not inserted yet
Torn == \E id \in 1..next_image_id : id \notin IssuedIds

\* a call completes in this step
Completes == last' # last

\* thread t starts or ends a call in this step
Moves(t) == pc'[t] # pc[t]

(***************************************************************************)
(* Claims                                                                  *)
(***************************************************************************)
\* C1: the ids returned by next_id are strictly increasing in call order
\* (hence pairwise distinct) and never 0, whatever removes run in between.
IdsStrictlyIncreasing ==
    /\ \A i \in 1..Len(issued) : issued[i][1] # 0
    /\ \A i, j \in 1..Len(issued) : i < j => issued[i][1] < issued[j][1]

\* C1 witness: next_id has just returned a second id after the first id was
\* removed.
IdIssuedAfterRemove ==
    /\ last.op = "next_id"
    /\ Len(issued) >= 2
    /\ issued[1][1] \in removed

\* C2: get(id) is the kind next_id associated with id while id is not
\* removed, and nothing once remove(id) has run, whatever runs afterwards.
GetFollowsHistory ==
    \A i \in 1..Len(issued) :
        LET id == issued[i][1] IN
        RegistryGet(external_images, id) =
            (IF id \in removed THEN "None" ELSE issued[i][2])

\* C2 witness: a get on a removed id returned nothing after a later next_id,
\* while another id is still registered.
GetOnRemovedId ==
    /\ last.op = "get"
    /\ last.key \in removed
    /\ last.out = <<"kind", "None">>
    /\ \E id \in IssuedIds \ removed : id > last.key

\* C3: a dispatcher lock or unlock on a key that was never issued or has been
\* removed panics: no provider is called and nothing is returned.
UnknownKeyIsFatal ==
    [][\A t \in Threads :
        /\ (pc[t] = "idle" /\ pc'[t] = "callback") => Registered(frame'[t].key)
        /\ (/\ Completes
            /\ last'.op \in {"lock", "unlock"}
            /\ ~Registered(last'.key))
           => (/\ last'.out \in {UnknownPanic, PoisonPanic}
               /\ last'.provider = 0
               /\ pc' = pc
               /\ UNCHANGED lockedBy)]_vars

\* C3 witness: unlock on a removed id took the unknown-image panic while a
\* provider was installed.
UnlockOnRemovedPanicked ==
    /\ last.op = "unlock"
    /\ last.key \in removed
    /\ last.out = UnknownPanic
    /\ webgl_handler # 0
    /\ media_handler # 0

\* C4 as claimed: the unlock that follows a lock of an id reaches the provider
\* instance that served the lock, whatever ran in between.
UnlockReachesLockProvider ==
    \A t \in Threads :
        (pc[t] = "callback" /\ frame[t].op = "unlock" /\ frame[t].paired # 0)
        => frame[t].provider = frame[t].paired

\* C4 amended: lock and unlock each reach the provider installed last for the
\* id's kind at the time of the call; the unlock reaches the provider that
\* served the lock when no set_handler for that kind ran in between.
CallReachesInstalledProvider ==
    \A t \in Threads :
        pc[t] = "callback" =>
            /\ frame[t].provider # 0
            /\ frame[t].provider = Latest(AssocKind(frame[t].key))
            /\ (/\ frame[t].op = "unlock"
                /\ frame[t].paired # 0
                /\ frame[t].paired = Latest(installedAs[frame[t].paired]))
               => frame[t].provider = frame[t].paired

\* C4 witness: an unlock is in its provider, the one that served the lock.
UnlockInLockProvider ==
    \E t \in Threads :
        /\ pc[t] = "callback"
        /\ frame[t].op = "unlock"
        /\ frame[t].paired # 0
        /\ frame[t].provider = frame[t].paired

\* C5: a lock reaches only a provider installed for the kind its id was
\* allocated for, with the id's numeric value, and returns one descriptor.
NoCrossTalk ==
    /\ \A t \in Threads :
        (pc[t] = "callback" /\ frame[t].op = "lock") =>
            /\ installedAs[frame[t].provider] = AssocKind(frame[t].key)
            /\ frame[t].arg = frame[t].key
    /\ (last.op = "lock" /\ last.out # <<>> /\ last.out[1] = "image") =>
            /\ installedAs[last.provider] = AssocKind(last.key)
            /\ last.arg = last.key
            /\ last.kind = AssocKind(last.key)

\* C5 witness: one thread's lock of a WebGL id has returned a descriptor from
\* the WebGL provider and another thread's lock of a Media id is in the Media
\* provider.
TwoThreadsLocked ==
    \E t \in Threads :
        /\ pc[t] = "callback"
        /\ frame[t].op = "lock"
        /\ AssocKind(frame[t].key) = "Media"
        /\ frame[t].provider = media_handler
        /\ last.op = "lock"
        /\ last.out[1] = "image"
        /\ AssocKind(last.key) = "WebGL"
        /\ last.provider = webgl_handler
        /\ last.key # frame[t].key
        /\ \E u \in Threads \ {t} :
              Caller(u) /\ ~ENABLED Dispatch(u, "lock", last.key)

\* C6: no thread acts on the registry or the dispatcher between the counter
\* increment and the map insertion of another thread's next_id, and no two
\* next_id calls return the same id.
NextIdIsAtomic ==
    /\ [][(Torn /\ (Completes \/ \E t \in Threads : Moves(t)))
            => \E t \in Threads :
                  /\ pc[t] = "insert" /\ mutex = t /\ Moves(t)
                  /\ \A u \in Threads \ {t} : ~Moves(u)]_vars
    /\ [](\A i, j \in 1..Len(issued) : i # j => issued[i][1] # issued[j][1])
    /\ [](Torn => \E t \in Threads : pc[t] = "insert" /\ mutex = t)

\* C6 witness: a next_id is between its increment and its insertion, holding
\* the guard, after another thread's next_id returned.
NextIdInFlight ==
    \E t \in Threads :
        /\ pc[t] = "insert"
        /\ mutex = t
        /\ Torn
        /\ last.op = "next_id"
        /\ \E u \in Threads \ {t} :
              Caller(u) /\ ~ENABLED NextIdInc(u, "WebGL")

\* C7 as claimed: the registry's guard is not held while a provider's lock
\* or unlock callback runs.
GuardFreeInCallback ==
    \A t \in Threads : pc[t] = "callback" => mutex # t

\* C8 as claimed: when create or present returns an error, no context or
\* surface the operation created or unbound is left without its destroy call.
NoLeakOnError ==
    (Len(result) >= 2 /\ result[1] \in {"create", "present"} /\ result[2] = "Err")
    => (context # "leaked" /\ surface # "leaked")

\* the surfman calls of the last operation, by name
Called(name) == \E i \in 1..Len(trace) : trace[i][1] = name
Failed(name) == \E i \in 1..Len(trace) : trace[i] = <<name, "Err">>

\* C9: when the bind of create fails, destroy_surface is the next and last
\* surfman call of create, and create returns the bind error, whether or not
\* destroy_surface succeeded.
BindFailureDestroysSurface ==
    (Len(result) >= 1 /\ result[1] = "create" /\ Failed("bind_surface_to_context"))
    => /\ Len(trace) >= 2
       /\ trace[Len(trace) - 1] = <<"bind_surface_to_context", "Err">>
       /\ trace[Len(trace)][1] = "destroy_surface"
       /\ result = <<"create", "Err", "bind_surface_to_context">>
       /\ surface = (IF trace[Len(trace)][2] = "Ok" THEN "destroyed"
                                                  ELSE "destroy_failed")
       /\ mgr = "Uninitialized"

\* C9 witness: the bind of create failed, destroy_surface failed too, and
\* create returned the bind error.
BindAndDestroyFailed ==
    /\ result = <<"create", "Err", "bind_surface_to_context">>
    /\ Failed("bind_surface_to_context")
    /\ Failed("destroy_surface")

\* C10: a created manager has a swap chain exactly when it was created with
\* a generic surface type, in every state its operations lead to.
SwapChainIffGeneric ==
    mgr = "Ready" => (swap_chain = "Some" <=> surface_type = "Generic")

\* C10 witness: a manager created with a generic surface type still has its
\* swap chain after a present, a resize or a surface-texture round trip.
SwapChainKeptAfterOps ==
    /\ mgr = "Ready"
    /\ result[1] \in {"present", "resize", "destroy_surface_texture"}
    /\ surface_type = "Generic"
    /\ swap_chain = "Some"
    /\ surface_textures = 0

\* the step is a call of the named operation of the surface manager
SurfStep(op) == result' # <<>> /\ result'[1] = op /\ <<trace, result>>' # <<trace, result>>

\* C11: resize on a manager created with a widget target returns the
\* WidgetAttached error, calls nothing of surfman and changes nothing of the
\* manager; on a manager created with a generic target it calls the swap
\* chain's resize once and returns that call's result.
ResizeNeedsSwapChain ==
    /\ [](result # <<>> /\ result[1] = "resize" =>
            IF surface_type = "Widget"
            THEN result = <<"resize", "Err", "WidgetAttached">> /\ trace = <<>>
            ELSE /\ Len(trace) = 1
                 /\ trace[1][1] = "resize"
                 /\ result = (IF trace[1][2] = "Ok"
                              THEN <<"resize", "Ok">>
                              ELSE <<"resize", "Err", "resize">>))
    /\ [][SurfStep("resize") =>
            UNCHANGED <<mgr, handles, surface_type, swap_chain, context,
                        surface, chain, surface_textures>>]_vars

\* C11 witness: resize on a widget manager returned WidgetAttached.
ResizeRefusedOnWidget ==
    /\ mgr = "Ready"
    /\ surface_type = "Widget"
    /\ result = <<"resize", "Err", "WidgetAttached">>
    /\ trace = <<>>

\* the names of the surfman calls of the last operation, in order
TraceNames == [i \in 1..Len(trace) |-> trace[i][1]]

\* C12: present with a swap chain attached calls swap_buffers and nothing
\* else (no unbind, no native present, no rebind); present without a swap
\* chain never calls swap_buffers.
PresentPathBySwapChain ==
    (result # <<>> /\ result[1] = "present") =>
        IF swap_chain = "Some"
        THEN TraceNames = <<"swap_buffers">>
        ELSE /\ ~Called("swap_buffers")
             /\ Len(trace) >= 1
             /\ trace[1][1] = "unbind_surface_from_context"

\* C12 witness: a present on a manager with a swap chain swapped buffers.
PresentSwappedBuffers ==
    /\ swap_chain = "Some"
    /\ result = <<"present", "Ok">>
    /\ trace = <<<<"swap_buffers", "Ok">>>>

\* C13: a widget-mode present calls unbind, present_surface and bind in this
\* order and stops at the first failure; when it succeeds the surface is
\* bound again; when the rebind fails destroy_surface is called on the
\* surface after the failed bind and the error returned is the rebind's.
WidgetPresentCycle ==
    (result # <<>> /\ result[1] = "present" /\ swap_chain = "None") =>
        /\ \E n \in 1..4 :
              TraceNames = SubSeq(<<"unbind_surface_from_context",
                                    "present_surface",
                                    "bind_surface_to_context",
                                    "destroy_surface">>, 1, n)
        /\ \A i \in 1..Len(trace) :
              (trace[i][2] = "Err" /\ i < Len(trace)) =>
                  (i = 3 /\ Len(trace) = 4)
        /\ result = <<"present", "Ok">> =>
              /\ Len(trace) = 3
              /\ \A i \in 1..3 : trace[i][2] = "Ok"
              /\ surface = "bound"
        /\ Len(trace) = 3 => trace[3][2] = "Ok"
        /\ Len(trace) = 4 =>
              /\ trace[3][2] = "Err"
              /\ result = <<"present", "Err", "bind_surface_to_context">>
              /\ surface = (IF trace[4][2] = "Ok" THEN "destroyed"
                                                  ELSE "destroy_failed")

\* C13 witness: the rebind of a widget-mode present failed and the surface
\* was destroyed.
RebindFailedSurfaceDestroyed ==
    /\ swap_chain = "None"
    /\ result = <<"present", "Err", "bind_surface_to_context">>
    /\ TraceNames = <<"unbind_surface_from_context", "present_surface",
                      "bind_surface_to_context", "destroy_surface">>
    /\ trace[4][2] = "Ok"
    /\ surface = "destroyed"

\* C14: the teardown destroys the swap chain, when there is one, before the
\* context; destroy_context is called whether or not the swap chain's
\* destroy failed; and the teardown ends without an error or a panic
\* whatever the two calls returned.
TeardownOrder ==
    mgr = "Destroyed" =>
        /\ TraceNames = (IF swap_chain = "Some"
                         THEN <<"swap_chain.destroy", "destroy_context">>
                         ELSE <<"destroy_context">>)
        /\ result = <<"drop">>

\* C14 witness: the swap chain's destroy failed and the context was
\* destroyed all the same.
ContextDestroyedAfterChainError ==
    /\ mgr = "Destroyed"
    /\ trace = <<<<"swap_chain.destroy", "Err">>, <<"destroy_context", "Ok">>>>
    /\ context = "destroyed"
    /\ result = <<"drop">>

\* C15: the manager goes Uninitialized -> Ready -> Destroyed and no other
\* way; the teardown runs on the drop of the last handle only (one handle
\* before, none after), so the context is live while a handle exists; and
\* after the teardown nothing runs any more, neither an operation on the
\* device and context nor a second teardown.
DestroyedExactlyOnce ==
    /\ [](mgr = "Ready" <=> handles >= 1)
    /\ [](handles >= 1 => context = "live")
    /\ [][mgr' # mgr =>
            \/ mgr = "Uninitialized" /\ mgr' = "Ready"
            \/ mgr = "Ready" /\ mgr' = "Destroyed"]_vars
    /\ [][(\/ SurfStep("drop")
            \/ (context = "live" /\ context' # "live")
            \/ (mgr' = "Destroyed" /\ mgr # "Destroyed")) =>
            /\ SurfStep("drop")
            /\ mgr = "Ready" /\ mgr' = "Destroyed"
            /\ handles = 1 /\ handles' = 0]_vars
    /\ [][mgr = "Destroyed" => UNCHANGED svars]_vars

\* C15 witness: one of two handles was dropped and the manager is still
\* ready, its context live.
HandleDroppedManagerAlive ==
    /\ result = <<"drop_handle">>
    /\ handles = 1
    /\ mgr = "Ready"
    /\ context = "live"

\* C18: every present on a widget-mode manager starts with a surface bound,
\* whatever the earlier presents returned, and so none panics on the unwrap
\* of the unbound surface.
SurfaceBoundAtEveryPresent ==
    [][(SurfStep("present") /\ swap_chain = "None") =>
            /\ surface = "bound"
            /\ result' # <<"present", "panic">>]_vars

\* C16: remove on an id that has no mapping returns normally and leaves the
\* mapping and the counter as they were, so the next next_id returns the id
\* it would have returned without the remove.
RemoveAbsentIsNoOp ==
    [][(/\ Completes
        /\ last'.op = "remove"
        /\ RegistryGet(external_images, last'.key) = "None")
       => (/\ last'.out = <<"unit">>
           /\ UNCHANGED <<external_images, next_image_id>>
           /\ NewKey(next_image_id' + 1, external_images')
                 = NewKey(next_image_id + 1, external_images))]_vars

\* C16 witness: remove ran on an id that was never issued while id 1 was
\* registered; id 1 is still mapped and the counter is still 1.
RemovedAbsentId ==
    /\ last.op = "remove"
    /\ last.key \notin IssuedIds
    /\ last.out = <<"unit">>
    /\ next_image_id = 1
    /\ Registered(1)
    /\ RegistryGet(external_images, 1) # "None"

\* C17: the descriptor lock returns has the texture handle the provider
\* returned and a rectangle fixed by the id's kind and the returned size
\* (w, h) alone, each component being the f32 of the i32: (0, h, w, 0) for
\* WebGL and (0, 0, w, h) for Media.
LockDescriptor ==
    (last.op = "lock" /\ last.out # <<>> /\ last.out[1] = "image") =>
        LET w == last.ret[2][1]
            h == last.ret[2][2]
        IN /\ last.out[2] = last.ret[1]
           /\ AssocKind(last.key) \in Kinds
           /\ last.out[3] = (IF AssocKind(last.key) = "WebGL"
                             THEN <<0, AsF32(h), AsF32(w), 0>>
                             ELSE <<0, 0, AsF32(w), AsF32(h)>>)

\* C17 witness: lock on a WebGL id whose provider returned texture 9 of size
\* 16777217 x 1 returned the flipped rectangle.
WebGLDescriptorFlipped ==
    /\ last.op = "lock"
    /\ AssocKind(last.key) = "WebGL"
    /\ last.ret = <<9, <<16777217, 1>>>>
    /\ last.out = <<"image", 9, <<0, 1, 16777216, 0>>>>

\* C19: a dispatcher lock or unlock on a registered id whose kind never had
\* a provider installed panics: nothing is returned, and the provider a call
\* reaches is always one installed for the id's own kind.
MissingProviderIsFatal ==
    [][\A t \in Threads :
        /\ (pc[t] = "idle" /\ pc'[t] = "callback") =>
              /\ frame'[t].provider # 0
              /\ installedAs[frame'[t].provider] = AssocKind(frame'[t].key)
        /\ (/\ Completes
            /\ last'.op \in {"lock", "unlock"}
            /\ Registered(last'.key)
            /\ Latest(AssocKind(last'.key)) = 0)
           => (/\ last'.out \in {NoHandlerPanic, PoisonPanic}
               /\ last'.provider = 0
               /\ pc' = pc)]_vars

\* C19 witness: lock on a registered WebGL id panicked for the missing
\* provider while a Media provider was installed.
LockWithoutProviderPanicked ==
    /\ last.op = "lock"
    /\ Registered(last.key)
    /\ AssocKind(last.key) = "WebGL"
    /\ webgl_handler = 0
    /\ media_handler # 0
    /\ last.out = NoHandlerPanic

\* C20: a panic of a dispatcher lock or unlock (unknown id, missing
\* provider, panicking provider) leaves the mapping and the counter as they
\* were and the mutex poisoned; the mutex stays poisoned, and from then on
\* every dispatcher lock or unlock panics on the poisoned mutex and reaches
\* no provider.
PanicPoisonsRegistry ==
    [][/\ (/\ Completes
           /\ last'.op \in {"lock", "unlock"}
           /\ last'.out[1] = "panic")
          => (poisoned' /\ UNCHANGED <<external_images, next_image_id>>)
       /\ poisoned =>
             /\ poisoned'
             /\ \A t \in Threads : pc'[t] # "callback"
             /\ (Completes /\ last'.op \in {"lock", "unlock"})
                   => last'.out = PoisonPanic]_vars

\* C20 witness: lock on a registered id whose provider is installed panicked
\* on the poisoned mutex.
LockAfterPoisonPanicked ==
    /\ poisoned
    /\ last.op = "lock"
    /\ last.out = PoisonPanic
    /\ Registered(last.key)
    /\ HandlerFor(AssocKind(last.key)) # 0

====
